---- MODULE Spec2Model ----
(***************************************************************************)
(* Detection services of the repository.                                   *)
(*                                                                         *)
(*   src/changethon_all_models/test.py  the three-model service: weapon,   *)
(*       plate (+ OCR) and behaviour detectors, incidents.csv log.         *)
(*   src/main.py                        the single-model service.          *)
(*                                                                         *)
(* Both bind port 3005, so one process runs one of them: `service` says    *)
(* which.  Flask serves every request on a thread of its own, so a request *)
(* is a thread t whose handler frame is call[t].                           *)
(*                                                                         *)
(* Numbers.  A confidence is an integer number of hundredths (0.90 is 90). *)
(* A float box coordinate is an integer number of tenths of a pixel        *)
(* (10.5 px is 105); int() of it is a whole number of pixels.              *)
(* Text is a sequence of one-character strings, so that str.lower() can be *)
(* computed character by character.                                        *)
(* The Time column of incidents.csv (datetime.now()) is not modelled; a    *)
(* row carries instead the thread that wrote it (field req).               *)
(***************************************************************************)
EXTENDS Integers, Sequences, FiniteSets, TLC

VARIABLES
    service,          \* which program runs: "all_models" (test.py) or "main" (main.py)
    weapons_model,    \* test.py:39  TRUE when the YOLO model was loaded, FALSE for None
    plate_model,      \* test.py:40
    suspicion_model,  \* test.py:41
    ocr_reader,       \* test.py:44-51
    log,              \* data rows of incidents.csv, in file order
    writers,          \* threads that hold incidents.csv open for append
    call              \* call[t]: the frame of detect() on thread t

vars == <<service, weapons_model, plate_model, suspicion_model, ocr_reader,
          log, writers, call>>

config == <<service, weapons_model, plate_model, suspicion_model, ocr_reader>>

----------------------------------------------------------------------------
(* Bounds of the model *)

\* most raw detections the three detectors return for one frame, all together
MaxDet == 3

\* the same, in the specification of concurrent requests
ConcMaxDet == 2

Threads == {1, 2}

----------------------------------------------------------------------------
(* Text *)

UpperAlpha == <<"A","B","C","D","E","F","G","H","I","J","K","L","M",
                "N","O","P","Q","R","S","T","U","V","W","X","Y","Z">>
LowerAlpha == <<"a","b","c","d","e","f","g","h","i","j","k","l","m",
                "n","o","p","q","r","s","t","u","v","w","x","y","z">>

LowerChar(c) ==
    IF \E i \in 1..Len(UpperAlpha) : UpperAlpha[i] = c
    THEN LowerAlpha[CHOOSE i \in 1..Len(UpperAlpha) : UpperAlpha[i] = c]
    ELSE c

\* str(...).lower()
Lower(s) == [i \in 1..Len(s) |-> LowerChar(s[i])]

s_normal   == <<"n","o","r","m","a","l">>
s_Normal   == <<"N","o","r","m","a","l">>
s_NORMAL   == <<"N","O","R","M","A","L">>
s_Fight    == <<"F","i","g","h","t">>
s_knife    == <<"k","n","i","f","e">>
s_gun      == <<"g","u","n">>
s_unknown  == <<"u","n","k","n","o","w","n">>
s_DETECTED == <<"D","E","T","E","C","T","E","D">>
s_KA01     == <<"K","A","0","1">>
s_MH12     == <<"M","H","1","2">>

----------------------------------------------------------------------------
(* Thresholds *)

WEAPON_CONF == 90
PLATE_CONF == 70
BEHAV_CONF == 80
MAIN_CONF == 75

----------------------------------------------------------------------------
(* What the environment supplies: request bodies, frames, raw detections *)

Bodies == {"empty", "garbage", "image"}

\* the decoded frame of an "image" body: frame.shape[:2]
Frame == [H |-> 48, W |-> 64]

BoxA == <<105, 207, 409, 300>>
BoxB == <<201, 52, 338, 119>>
BoxZ == <<123, 50, 129, 200>>      \* int() makes x1 = x2: an empty crop

\* one box of a weapon or behaviour result: names[cls], conf, xyxy
WeaponDets ==
    { [label |-> s_knife, conf |-> 89, box |-> BoxA],
      [label |-> s_knife, conf |-> 90, box |-> BoxA],
      [label |-> s_gun,   conf |-> 95, box |-> BoxB],
      [label |-> s_knife, conf |-> 95, box |-> BoxA] }

BehavDets ==
    { [label |-> s_Normal, conf |-> 99, box |-> BoxA],
      [label |-> s_NORMAL, conf |-> 80, box |-> BoxB],
      [label |-> s_Fight,  conf |-> 80, box |-> BoxA],
      [label |-> s_Fight,  conf |-> 79, box |-> BoxB] }

\* one box of a plate result, with what ocr_reader.readtext would do on its
\* crop: raise, or return the texts of its result list
PlateDets ==
    { [conf |-> 69, box |-> BoxA, ocr |-> [raises |-> FALSE, texts |-> <<s_KA01>>]],
      [conf |-> 70, box |-> BoxA, ocr |-> [raises |-> TRUE,  texts |-> <<>>]],
      [conf |-> 91, box |-> BoxB, ocr |-> [raises |-> FALSE, texts |-> <<>>]],
      [conf |-> 91, box |-> BoxA, ocr |-> [raises |-> FALSE, texts |-> <<s_MH12, s_KA01>>]],
      [conf |-> 91, box |-> BoxZ, ocr |-> [raises |-> FALSE, texts |-> <<s_KA01>>]] }

MainDets ==
    { [label |-> s_knife, conf |-> 75, box |-> BoxA],
      [label |-> s_knife, conf |-> 76, box |-> BoxA],
      [label |-> s_gun,   conf |-> 90, box |-> BoxB],
      [label |-> s_knife, conf |-> 90, box |-> BoxA] }

ConcWeaponDets == { [label |-> s_gun, conf |-> 95, box |-> BoxB] }
ConcPlateDets ==
    { [conf |-> 91, box |-> BoxB, ocr |-> [raises |-> FALSE, texts |-> <<>>]] }
ConcBehavDets == { [label |-> s_Fight, conf |-> 80, box |-> BoxA] }

SeqsUpTo(D, n) == UNION { [1..k -> D] : k \in 0..n }

----------------------------------------------------------------------------
(* The frame of one detect() call *)

NoResp == [status |-> 0]

IdleCall ==
    [ pc |-> "idle", body |-> "empty",
      raw |-> [w |-> <<>>, p |-> <<>>, b |-> <<>>],
      pending |-> <<>>,
      weapon_boxes |-> <<>>, detected |-> FALSE, max_conf |-> 0,
      weapon_type |-> s_unknown,
      best |-> <<>>, plate_payload |-> <<>>, suspicious_payload |-> <<>>,
      row |-> <<>>, ret |-> "idle", resp |-> NoResp ]

\* detections the detectors have already returned in this call
Used(c) == Len(c.raw.w) + Len(c.raw.p) + Len(c.raw.b)

\* except Exception as e: return jsonify({"error": str(e)}), 500
Raise(c, e) == [c EXCEPT !.pc = "done", !.resp = [status |-> 500, error |-> e]]

\* variant of SlotEnabled: the slot is used without the check
SlotEnabledAlways(model) == TRUE

\* `if weapons_model:` and the like: None is falsy, a loaded model truthy
SlotEnabled(model) == model

----------------------------------------------------------------------------
(* incidents.csv: log_event *)

\* csv.writer(f).writerow([datetime.now(), t, label, conf, *box])
LogRow(t, type, label, conf, box) ==
    [req |-> t, Type |-> type, Label |-> label, Conf |-> conf, box |-> box]

\* variant of LogAppend: the row is put in front of the file's rows
LogAppendFront(rows, row) == <<row>> \o rows

\* the file after the row is written to it in append mode
LogAppend(rows, row) == Append(rows, row)

\* variant of CallLog: the handler goes on without calling log_event
CallLogSkipped(c, row, ret) == [c EXCEPT !.pc = ret]

\* the call of log_event(...): the handler goes on at `ret` when it returns
CallLog(c, row, ret) == [c EXCEPT !.pc = "log_open", !.row = row, !.ret = ret]

\* with open(CSV_FILE, "a", newline="") as f: the open. It raises OSError
\* when the file cannot be opened; nothing guards it against another thread
\* that holds the file open.
LogOpen(t) ==
    /\ call[t].pc = "log_open"
    /\ \/ /\ writers' = writers \cup {t}
          /\ call' = [call EXCEPT ![t].pc = "log_write"]
       \/ /\ writers' = writers
          /\ call' = [call EXCEPT ![t] = Raise(@, "OSError")]
    /\ UNCHANGED <<config, log>>

\* writerow and the end of the with block: the row reaches the file, the
\* file is closed, log_event returns
LogWrite(t) ==
    /\ call[t].pc = "log_write"
    /\ log' = LogAppend(log, call[t].row)
    /\ writers' = writers \ {t}
    /\ call' = [call EXCEPT ![t].pc = call[t].ret, ![t].row = <<>>]
    /\ UNCHANGED config

----------------------------------------------------------------------------
(* test.py detect(): decoding *)

\* cv2.imdecode raises cv2.error on an empty buffer in OpenCV 4 builds and
\* returns None in older ones; it returns None for bytes that are no image,
\* and frame.shape then raises AttributeError. Either way the handler's
\* except clause answers 500.
DecodeErrors(b) ==
    CASE b = "empty"   -> {"cv2.error", "AttributeError"}
      [] b = "garbage" -> {"AttributeError"}
      [] OTHER         -> {}

Detect(t) ==
    /\ service = "all_models"
    /\ call[t].pc = "idle"
    /\ \E b \in Bodies :
         LET c == [IdleCall EXCEPT !.body = b] IN
         \/ /\ DecodeErrors(b) = {}
            /\ call' = [call EXCEPT ![t] = [c EXCEPT !.pc = "weapons"]]
         \/ \E e \in DecodeErrors(b) :
              call' = [call EXCEPT ![t] = Raise(c, e)]
    /\ UNCHANGED <<config, log, writers>>

----------------------------------------------------------------------------
(* test.py detect(): the weapon pass *)

\* the detector call: skipped when the slot is disabled; it may raise
InvokeWeapons(t, D, n) ==
    /\ call[t].pc = "weapons"
    /\ LET c == call[t] IN
       IF SlotEnabled(weapons_model)
       THEN \/ \E r \in SeqsUpTo(D, n - Used(c)) :
                 call' = [call EXCEPT ![t] =
                            [c EXCEPT !.pc = "weapon_loop", !.pending = r,
                                      !.raw.w = r]]
            \/ call' = [call EXCEPT ![t] = Raise(c, "DetectorError")]
       ELSE call' = [call EXCEPT ![t].pc = "plate"]
    /\ UNCHANGED <<config, log, writers>>

\* variant of WeaponKeep: a confidence equal to the threshold is dropped
WeaponKeepStrict(conf) == conf > WEAPON_CONF

\* if conf < WEAPON_CONF: continue
WeaponKeep(conf) == ~(conf < WEAPON_CONF)

\* variant of NewMax: the last of several equal maxima wins
NewMaxLastWins(max_conf, weapon_type, conf, label) ==
    IF conf >= max_conf THEN <<conf, label>> ELSE <<max_conf, weapon_type>>

\* if conf > max_conf: max_conf = conf; weapon_type = label
NewMax(max_conf, weapon_type, conf, label) ==
    IF conf > max_conf THEN <<conf, label>> ELSE <<max_conf, weapon_type>>

\* one turn of `for b in r.boxes`, up to its call of log_event
WeaponStep(t) ==
    /\ call[t].pc = "weapon_loop"
    /\ LET c == call[t] IN
       IF c.pending = <<>>
       THEN call' = [call EXCEPT ![t].pc = "plate"]
       ELSE LET b == Head(c.pending)
                rest == [c EXCEPT !.pending = Tail(c.pending)]
                m == NewMax(c.max_conf, c.weapon_type, b.conf, b.label)
                entry == [label |-> b.label, confidence |-> b.conf, box |-> b.box]
            IN IF ~WeaponKeep(b.conf)
               THEN call' = [call EXCEPT ![t] = rest]
               ELSE call' = [call EXCEPT ![t] =
                      CallLog([rest EXCEPT !.detected = TRUE,
                                           !.max_conf = m[1],
                                           !.weapon_type = m[2],
                                           !.weapon_boxes = Append(@, entry)],
                              LogRow(t, "WEAPON", b.label, b.conf, b.box),
                              "weapon_loop")]
    /\ UNCHANGED <<config, log, writers>>

----------------------------------------------------------------------------
(* test.py detect(): the plate pass *)

InvokePlate(t, D, n) ==
    /\ call[t].pc = "plate"
    /\ LET c == call[t] IN
       IF SlotEnabled(plate_model)
       THEN \/ \E r \in SeqsUpTo(D, n - Used(c)) :
                 call' = [call EXCEPT ![t] =
                            [c EXCEPT !.pc = "plate_loop", !.pending = r,
                                      !.raw.p = r]]
            \/ call' = [call EXCEPT ![t] = Raise(c, "DetectorError")]
       ELSE call' = [call EXCEPT ![t].pc = "behaviour"]
    /\ UNCHANGED <<config, log, writers>>

\* if conf < PLATE_CONF: continue
PlateKeep(conf) == ~(conf < PLATE_CONF)

\* int(x) of a float given in tenths: truncation toward zero
PyInt(x) == IF x >= 0 THEN x \div 10 ELSE -((-x) \div 10)

\* box = [int(x) for x in b.xyxy[0].tolist()]
IntBox(box) == [i \in 1..4 |-> PyInt(box[i])]

\* the extent of the slice a:b of an axis of length n
SliceIndex(i, n) ==
    IF i < 0 THEN (IF i + n < 0 THEN 0 ELSE i + n)
             ELSE (IF i > n THEN n ELSE i)
SliceLen(a, b, n) ==
    IF SliceIndex(b, n) > SliceIndex(a, n)
    THEN SliceIndex(b, n) - SliceIndex(a, n) ELSE 0

\* crop = frame[box[1]:box[3], box[0]:box[2]]; crop.size, for 3 channels
CropSize(frame, box) ==
    SliceLen(box[2], box[4], frame.H) * SliceLen(box[1], box[3], frame.W) * 3

\* text = "DETECTED"; if ocr_reader and crop.size > 0: try: o = readtext(crop);
\* if o: text = o[0][1]; except: pass
PlateText(reader, frame, box, ocr) ==
    IF reader /\ CropSize(frame, box) > 0
    THEN IF ocr.raises THEN s_DETECTED
         ELSE IF ocr.texts # <<>> THEN ocr.texts[1] ELSE s_DETECTED
    ELSE s_DETECTED

\* variant of PlateBetter: the last of several equal maxima wins
PlateBetterLastWins(best, conf) == best = <<>> \/ conf >= best[1].conf

\* if not best or conf > best[0]
PlateBetter(best, conf) == best = <<>> \/ conf > best[1].conf

\* one turn of the plate loop; after the last one, `if best:` with its
\* payload and its call of log_event
PlateStep(t) ==
    /\ call[t].pc = "plate_loop"
    /\ LET c == call[t] IN
       IF c.pending = <<>>
       THEN IF c.best # <<>>
            THEN LET p == c.best[1] IN
                 call' = [call EXCEPT ![t] =
                   CallLog([c EXCEPT !.plate_payload =
                              << [text |-> p.text, confidence |-> p.conf,
                                  box |-> p.box] >>],
                           LogRow(t, "PLATE", p.text, p.conf, p.box),
                           "behaviour")]
            ELSE call' = [call EXCEPT ![t].pc = "behaviour"]
       ELSE LET b == Head(c.pending)
                rest == [c EXCEPT !.pending = Tail(c.pending)]
                box == IntBox(b.box)
                text == PlateText(ocr_reader, Frame, box, b.ocr)
            IN IF ~PlateKeep(b.conf)
               THEN call' = [call EXCEPT ![t] = rest]
               ELSE IF PlateBetter(c.best, b.conf)
                    THEN call' = [call EXCEPT ![t] =
                           [rest EXCEPT !.best =
                              << [conf |-> b.conf, box |-> box, text |-> text] >>]]
                    ELSE call' = [call EXCEPT ![t] = rest]
    /\ UNCHANGED <<config, log, writers>>

----------------------------------------------------------------------------
(* test.py detect(): the behaviour pass and the response *)

InvokeBehaviour(t, D, n) ==
    /\ call[t].pc = "behaviour"
    /\ LET c == call[t] IN
       IF SlotEnabled(suspicion_model)
       THEN \/ \E r \in SeqsUpTo(D, n - Used(c)) :
                 call' = [call EXCEPT ![t] =
                            [c EXCEPT !.pc = "behav_loop", !.pending = r,
                                      !.raw.b = r]]
            \/ call' = [call EXCEPT ![t] = Raise(c, "DetectorError")]
       ELSE call' = [call EXCEPT ![t].pc = "return"]
    /\ UNCHANGED <<config, log, writers>>

\* if conf < BEHAV_CONF: continue
BehavKeep(conf) == ~(conf < BEHAV_CONF)

\* variant of BehavLabel: the label is compared as the detector spells it
BehavLabelAsIs(name) == name

\* label = str(names[cls]).lower()
BehavLabel(name) == Lower(name)

\* if label == "normal": continue
BehavIgnored(label) == label = s_normal

BehaviourStep(t) ==
    /\ call[t].pc = "behav_loop"
    /\ LET c == call[t] IN
       IF c.pending = <<>>
       THEN call' = [call EXCEPT ![t].pc = "return"]
       ELSE LET b == Head(c.pending)
                rest == [c EXCEPT !.pending = Tail(c.pending)]
                label == BehavLabel(b.label)
                entry == [label |-> label, confidence |-> b.conf, box |-> b.box]
            IN IF ~BehavKeep(b.conf) \/ BehavIgnored(label)
               THEN call' = [call EXCEPT ![t] = rest]
               ELSE call' = [call EXCEPT ![t] =
                      CallLog([rest EXCEPT !.suspicious_payload = Append(@, entry)],
                              LogRow(t, "BEHAVIOUR", label, b.conf, b.box),
                              "behav_loop")]
    /\ UNCHANGED <<config, log, writers>>

\* return jsonify({...})
Response(c) ==
    [ status |-> 200,
      detected |-> c.detected,
      confidence |-> c.max_conf,
      weaponType |-> c.weapon_type,
      boundingBoxes |-> c.weapon_boxes,
      plate |-> c.plate_payload,
      suspicious |-> c.suspicious_payload ]

Return(t) ==
    /\ call[t].pc = "return"
    /\ call' = [call EXCEPT ![t].pc = "done", ![t].resp = Response(call[t])]
    /\ UNCHANGED <<config, log, writers>>

----------------------------------------------------------------------------
(* main.py detect() *)

\* if conf > 0.75
MainKeep(conf) == conf > MAIN_CONF

\* the body of `for box in result.boxes`
MainTurn(acc, b) ==
    IF MainKeep(b.conf)
    THEN [ detected |-> TRUE,
           max_conf |-> IF b.conf > acc.max_conf THEN b.conf ELSE acc.max_conf,
           weapon_type |-> IF b.conf > acc.max_conf THEN b.label ELSE acc.weapon_type,
           detections |-> Append(acc.detections,
                                 [label |-> b.label, confidence |-> b.conf,
                                  box |-> b.box]) ]
    ELSE acc

RECURSIVE MainLoop(_, _)
MainLoop(acc, boxes) ==
    IF boxes = <<>> THEN acc ELSE MainLoop(MainTurn(acc, Head(boxes)), Tail(boxes))

MainResponse(boxes) ==
    LET acc == MainLoop([detected |-> FALSE, max_conf |-> 0,
                         weapon_type |-> s_unknown, detections |-> <<>>], boxes)
    IN [ status |-> 200,
         detected |-> acc.detected,
         confidence |-> acc.max_conf,
         weaponType |-> acc.weapon_type,
         boundingBoxes |-> acc.detections ]

\* the whole handler: it shares nothing with other requests
MainDetect(t, D, n) ==
    /\ service = "main"
    /\ call[t].pc = "idle"
    /\ \E b \in Bodies :
         LET c == [IdleCall EXCEPT !.body = b, !.pc = "done"] IN
         CASE b = "empty" ->
                call' = [call EXCEPT ![t] =
                  [c EXCEPT !.resp = [status |-> 400,
                                      error |-> "No image data received"]]]
           [] b = "garbage" ->
                call' = [call EXCEPT ![t] =
                  [c EXCEPT !.resp = [status |-> 400,
                                      error |-> "Failed to decode image"]]]
           [] OTHER ->
                \/ \E r \in SeqsUpTo(D, n) :
                     call' = [call EXCEPT ![t] =
                       [c EXCEPT !.raw.w = r, !.resp = MainResponse(r)]]
                \/ call' = [call EXCEPT ![t] = Raise(c, "DetectorError")]
    /\ UNCHANGED <<config, log, writers>>

----------------------------------------------------------------------------
(* Startup and the specifications *)

\* rows an earlier run of the service left in incidents.csv
OldRows == << LogRow(0, "WEAPON", s_gun, 95, BoxB) >>

\* load_model returns None for a missing file; the OCR reader is built only
\* when easyocr imports and the plate model is loaded, and may fail to build
InitAllModels ==
    /\ service = "all_models"
    /\ weapons_model \in BOOLEAN
    /\ plate_model \in BOOLEAN
    /\ suspicion_model \in BOOLEAN
    /\ ocr_reader \in (IF plate_model THEN BOOLEAN ELSE {FALSE})
    /\ writers = {}
    /\ call = [t \in Threads |-> IdleCall]

InitMain ==
    /\ service = "main"
    /\ weapons_model = FALSE
    /\ plate_model = FALSE
    /\ suspicion_model = FALSE
    /\ ocr_reader = FALSE
    /\ writers = {}
    /\ call = [t \in Threads |-> IdleCall]
    /\ log = <<>>

Init ==
    \/ InitAllModels /\ log \in {<<>>, OldRows}
    \/ InitMain

\* one request, on thread 1
Next ==
    \/ Detect(1)
    \/ InvokeWeapons(1, WeaponDets, MaxDet)
    \/ WeaponStep(1)
    \/ InvokePlate(1, PlateDets, MaxDet)
    \/ PlateStep(1)
    \/ InvokeBehaviour(1, BehavDets, MaxDet)
    \/ BehaviourStep(1)
    \/ Return(1)
    \/ LogOpen(1)
    \/ LogWrite(1)
    \/ MainDetect(1, MainDets, MaxDet)

Spec == Init /\ [][Next]_vars

\* two requests of the three-model service, each on its own thread
InitConc == InitAllModels /\ log = <<>>

NextConc ==
    \E t \in Threads :
        \/ Detect(t)
        \/ InvokeWeapons(t, ConcWeaponDets, ConcMaxDet)
        \/ WeaponStep(t)
        \/ InvokePlate(t, ConcPlateDets, ConcMaxDet)
        \/ PlateStep(t)
        \/ InvokeBehaviour(t, ConcBehavDets, ConcMaxDet)
        \/ BehaviourStep(t)
        \/ Return(t)
        \/ LogOpen(t)
        \/ LogWrite(t)

SpecConc == InitConc /\ [][NextConc]_vars

----------------------------------------------------------------------------
(* What the properties are stated with *)

Done(t) == call[t].pc = "done"

\* the request on thread t was answered with the aggregated result
Ok(t) == Done(t) /\ call[t].resp.status = 200

AllModels == service = "all_models"

IsPrefix(a, b) == Len(a) <= Len(b) /\ SubSeq(b, 1, Len(a)) = a

\* the rows of incidents.csv that thread t wrote
RowsOf(t) == SelectSeq(log, LAMBDA r : r.req = t)

RowsOfType(t, type) == SelectSeq(log, LAMBDA r : r.req = t /\ r.Type = type)

Threshold(type) ==
    CASE type = "WEAPON" -> WEAPON_CONF
      [] type = "PLATE" -> PLATE_CONF
      [] type = "BEHAVIOUR" -> BEHAV_CONF

\* two characters that differ at most in case
SameCharIgnoringCase(x, y) ==
    \/ x = y
    \/ \E i \in 1..Len(UpperAlpha) :
          {x, y} = {UpperAlpha[i], LowerAlpha[i]}

SameIgnoringCase(a, b) ==
    /\ Len(a) = Len(b)
    /\ \A i \in 1..Len(a) : SameCharIgnoringCase(a[i], b[i])

IsNormal(label) == SameIgnoringCase(label, s_normal)

MaxConf(S) == IF S = {} THEN 0 ELSE CHOOSE m \in S : \A x \in S : x <= m

\* the findings a detector's output stands for, stated over the whole output
RefWeapons(raw) ==
    LET kept == SelectSeq(raw, LAMBDA d : d.conf >= WEAPON_CONF)
    IN [i \in 1..Len(kept) |->
          [label |-> kept[i].label, confidence |-> kept[i].conf, box |-> kept[i].box]]

RefPlate(raw, reader) ==
    LET kept == SelectSeq(raw, LAMBDA d : d.conf >= PLATE_CONF)
        top == MaxConf({kept[i].conf : i \in 1..Len(kept)})
        first == CHOOSE i \in 1..Len(kept) :
                    /\ kept[i].conf = top
                    /\ \A j \in 1..(i - 1) : kept[j].conf < top
    IN IF kept = <<>> THEN <<>>
       ELSE << [text |-> PlateText(reader, Frame, IntBox(kept[first].box),
                                   kept[first].ocr),
                confidence |-> top,
                box |-> IntBox(kept[first].box)] >>

RefBehaviour(raw) ==
    LET kept == SelectSeq(raw, LAMBDA d : d.conf >= BEHAV_CONF /\ ~IsNormal(d.label))
    IN [i \in 1..Len(kept) |->
          [label |-> Lower(kept[i].label), confidence |-> kept[i].conf,
           box |-> kept[i].box]]

\* the rows that record findings, in the order weapon, plate, behaviour
FindingRows(t, weapons, plate, suspicious) ==
    [i \in 1..Len(weapons) |->
        LogRow(t, "WEAPON", weapons[i].label, weapons[i].confidence, weapons[i].box)]
    \o [i \in 1..Len(plate) |->
        LogRow(t, "PLATE", plate[i].text, plate[i].confidence, plate[i].box)]
    \o [i \in 1..Len(suspicious) |->
        LogRow(t, "BEHAVIOUR", suspicious[i].label, suspicious[i].confidence,
               suspicious[i].box)]

----------------------------------------------------------------------------
(* Properties *)

\* C1: in the three-model service no finding of a response and no row of the
\* incident log has a confidence below its category's threshold (weapon 90,
\* plate 70, behaviour 80), and a raw detection whose confidence is exactly
\* the threshold is kept: a weapon in boundingBoxes, a plate as the plate or
\* behind one of at least its confidence, a behaviour that is not "normal"
\* in suspicious.
C1_ThresholdGate ==
    AllModels =>
      /\ \A i \in 1..Len(log) : log[i].Conf >= Threshold(log[i].Type)
      /\ \A t \in Threads : Ok(t) =>
           LET r == call[t].resp
               raw == call[t].raw
           IN /\ \A i \in 1..Len(r.boundingBoxes) :
                     r.boundingBoxes[i].confidence >= WEAPON_CONF
              /\ \A i \in 1..Len(r.plate) : r.plate[i].confidence >= PLATE_CONF
              /\ \A i \in 1..Len(r.suspicious) :
                     r.suspicious[i].confidence >= BEHAV_CONF
              /\ \A i \in 1..Len(raw.w) :
                   /\ raw.w[i].conf < WEAPON_CONF =>
                        \A j \in 1..Len(r.boundingBoxes) :
                           r.boundingBoxes[j].confidence # raw.w[i].conf
                   /\ raw.w[i].conf = WEAPON_CONF =>
                        \E j \in 1..Len(r.boundingBoxes) :
                           r.boundingBoxes[j] =
                             [label |-> raw.w[i].label, confidence |-> raw.w[i].conf,
                              box |-> raw.w[i].box]
              /\ \A i \in 1..Len(raw.p) :
                   raw.p[i].conf = PLATE_CONF =>
                     /\ r.plate # <<>>
                     /\ r.plate[1].confidence >= PLATE_CONF
              /\ \A i \in 1..Len(raw.b) :
                   raw.b[i].conf = BEHAV_CONF /\ ~IsNormal(raw.b[i].label) =>
                     \E j \in 1..Len(r.suspicious) :
                        /\ r.suspicious[j].confidence = raw.b[i].conf
                        /\ r.suspicious[j].box = raw.b[i].box

\* a response that kept a weapon at exactly 90 and dropped one at 89
C1_Witness ==
    /\ AllModels /\ Ok(1)
    /\ \E i, j \in 1..Len(call[1].raw.w) :
          /\ call[1].raw.w[i].conf = WEAPON_CONF - 1
          /\ call[1].raw.w[j].conf = WEAPON_CONF
    /\ Len(call[1].resp.boundingBoxes) = 1
    /\ Len(RowsOfType(1, "WEAPON")) = 1

\* C2: in every successful response of either service, detected is true
\* exactly when boundingBoxes is not empty, confidence is the greatest
\* confidence in boundingBoxes (0 when it is empty) and weaponType is the
\* label of the first entry that has it ("unknown" when it is empty); plates
\* and behaviours do not count.
C2_WeaponSummary ==
    \A t \in Threads : Ok(t) =>
      LET r == call[t].resp
          bb == r.boundingBoxes
          top == MaxConf({bb[i].confidence : i \in 1..Len(bb)})
      IN /\ r.detected <=> bb # <<>>
         /\ r.confidence = top
         /\ bb = <<>> => r.weaponType = s_unknown
         /\ bb # <<>> =>
              \E i \in 1..Len(bb) :
                 /\ bb[i].confidence = top
                 /\ \A j \in 1..(i - 1) : bb[j].confidence < top
                 /\ r.weaponType = bb[i].label

\* two weapons share the greatest confidence under different labels, and
\* the response names the first
C2_Witness ==
    /\ AllModels /\ Ok(1)
    /\ Len(call[1].resp.boundingBoxes) >= 2
    /\ call[1].resp.boundingBoxes[1].confidence = call[1].resp.confidence
    /\ call[1].resp.boundingBoxes[2].confidence = call[1].resp.confidence
    /\ call[1].resp.boundingBoxes[1].label # call[1].resp.boundingBoxes[2].label
    /\ call[1].resp.suspicious # <<>>

\* C3: the response of the three-model service has no plate when the plate
\* detector is disabled or no plate detection reaches the plate threshold;
\* otherwise its plate is the passing detection of greatest confidence, the
\* first of them in the detector's order when several share it, with the
\* integer box and the text of that detection.
C3_BestPlate ==
    AllModels =>
      \A t \in Threads : Ok(t) =>
        /\ Len(call[t].resp.plate) <= 1
        /\ ~plate_model => call[t].resp.plate = <<>>
        /\ call[t].resp.plate = RefPlate(call[t].raw.p, ocr_reader)

\* two passing plates share the greatest confidence and the first is the one
\* reported, with its own text
C3_Witness ==
    /\ AllModels /\ Ok(1) /\ ocr_reader
    /\ Len(call[1].raw.p) >= 2
    /\ call[1].raw.p[1].conf = call[1].raw.p[2].conf
    /\ call[1].raw.p[1].conf >= PLATE_CONF
    /\ call[1].raw.p[1].box # call[1].raw.p[2].box
    /\ call[1].resp.plate # <<>>
    /\ call[1].resp.plate[1].box = IntBox(call[1].raw.p[1].box)
    /\ call[1].resp.plate[1].text = s_MH12

\* C4: a behaviour detection whose label is "normal" in any letter case is
\* in no suspicious list and in no row of the incident log, whatever its
\* confidence, and every other behaviour detection at or above the
\* behaviour threshold is in the suspicious list of its response.
C4_NormalIgnored ==
    AllModels =>
      /\ \A i \in 1..Len(log) :
            log[i].Type = "BEHAVIOUR" => ~IsNormal(log[i].Label)
      /\ \A t \in Threads : Ok(t) =>
           LET r == call[t].resp
               raw == call[t].raw
           IN /\ \A j \in 1..Len(r.suspicious) : ~IsNormal(r.suspicious[j].label)
              /\ \A i \in 1..Len(raw.b) :
                   raw.b[i].conf >= BEHAV_CONF /\ ~IsNormal(raw.b[i].label) =>
                     \E j \in 1..Len(r.suspicious) :
                        /\ SameIgnoringCase(r.suspicious[j].label, raw.b[i].label)
                        /\ r.suspicious[j].confidence = raw.b[i].conf
                        /\ r.suspicious[j].box = raw.b[i].box

\* "Normal" at 99 was left out and "Fight" at 80 reported
C4_Witness ==
    /\ AllModels /\ Ok(1)
    /\ \E i, j \in 1..Len(call[1].raw.b) :
          /\ call[1].raw.b[i].label = s_Normal
          /\ call[1].raw.b[i].conf >= BEHAV_CONF
          /\ call[1].raw.b[j].label = s_Fight
          /\ call[1].raw.b[j].conf >= BEHAV_CONF
    /\ Len(call[1].resp.suspicious) = 1
    /\ Len(RowsOfType(1, "BEHAVIOUR")) = 1

\* C5: whichever detector slots are disabled, a request of the three-model
\* service with a decodable image fails only when a detector that is
\* enabled, or the incident log, raises; in a successful response a disabled
\* category is empty (no boundingBoxes and detected false, no plate, no
\* suspicious) and has no incident rows, and an enabled category holds the
\* findings of its detector's output, which do not depend on the other
\* slots, with one incident row for each.
C5_DisabledSlots ==
    AllModels =>
      \A t \in Threads :
        LET c == call[t]
            r == c.resp
        IN /\ Done(t) /\ c.body = "image" /\ r.status # 200 =>
                /\ r.status = 500
                /\ r.error \in {"DetectorError", "OSError"}
                /\ weapons_model \/ plate_model \/ suspicion_model
           /\ Ok(t) =>
                /\ ~weapons_model =>
                     /\ r.boundingBoxes = <<>> /\ ~r.detected
                     /\ RowsOfType(t, "WEAPON") = <<>>
                /\ ~plate_model =>
                     r.plate = <<>> /\ RowsOfType(t, "PLATE") = <<>>
                /\ ~suspicion_model =>
                     r.suspicious = <<>> /\ RowsOfType(t, "BEHAVIOUR") = <<>>
                /\ weapons_model =>
                     /\ r.boundingBoxes = RefWeapons(c.raw.w)
                     /\ RowsOfType(t, "WEAPON") =
                          FindingRows(t, RefWeapons(c.raw.w), <<>>, <<>>)
                /\ plate_model =>
                     /\ r.plate = RefPlate(c.raw.p, ocr_reader)
                     /\ RowsOfType(t, "PLATE") =
                          FindingRows(t, <<>>, RefPlate(c.raw.p, ocr_reader), <<>>)
                /\ suspicion_model =>
                     /\ r.suspicious = RefBehaviour(c.raw.b)
                     /\ RowsOfType(t, "BEHAVIOUR") =
                          FindingRows(t, <<>>, <<>>, RefBehaviour(c.raw.b))

\* the weapon slot is disabled and the request still reports a plate and a
\* behaviour
C5_Witness ==
    /\ AllModels /\ Ok(1)
    /\ ~weapons_model /\ plate_model /\ suspicion_model
    /\ call[1].resp.boundingBoxes = <<>>
    /\ call[1].resp.plate # <<>>
    /\ call[1].resp.suspicious # <<>>
    /\ Len(RowsOf(1)) = 2

\* C6: a request whose body is empty or cannot be decoded as an image is
\* answered with a client error (status 400) that carries an error message,
\* and no row of the incident log comes from it.
C6_BadImageIsClientError ==
    \A t \in Threads :
      Done(t) /\ call[t].body \in {"empty", "garbage"} =>
        /\ call[t].resp.status = 400
        /\ RowsOf(t) = <<>>

\* C7: a request is never answered with a server error because the append
\* to the incident log raised.
C7_LogFailureDoesNotFail ==
    \A t \in Threads :
      Done(t) => ~(call[t].resp.status = 500 /\ call[t].resp.error = "OSError")

\* C8: at no time do two requests hold the incident log open for writing.
C8_OneWriter == Cardinality(writers) <= 1

\* C9: the rows a successfully answered request has appended to the
\* incident log are one row for each entry of boundingBoxes in order, then
\* one for the plate when there is one, then one for each entry of
\* suspicious in order, and no others; they follow the rows that were in
\* the log before, which stay as they were (no step changes or removes a
\* row).
C9_RowsOfResponse ==
    /\ [](AllModels =>
            \A t \in Threads : Ok(t) =>
               RowsOf(t) = FindingRows(t, call[t].resp.boundingBoxes,
                                       call[t].resp.plate,
                                       call[t].resp.suspicious))
    /\ [][IsPrefix(log, log')]_vars

\* after a request that found the same gun as an earlier one: the old row,
\* then the same row again, then a plate row and a behaviour row
C9_Witness ==
    /\ AllModels /\ Ok(1)
    /\ Len(log) = 4
    /\ log[1] = OldRows[1]
    /\ log[2] = [OldRows[1] EXCEPT !.req = 1]
    /\ log[3].Type = "PLATE"
    /\ log[4].Type = "BEHAVIOUR"

\* C10 as claimed: a request that is answered with an error has left no
\* row in the incident log.
C10_ErrorLeavesLogUntouched ==
    \A t \in Threads :
      Done(t) /\ call[t].resp.status # 200 => RowsOf(t) = <<>>

\* C10 as amended: at every moment the rows a request has appended are the
\* first rows of those its detectors' outputs stand for (weapon findings,
\* then the plate, then behaviour findings), so a request answered with an
\* error leaves the rows of the findings it had recorded before it failed,
\* and none when its image was not decoded; no step changes or removes a
\* row.
C10_ErrorLeavesRecordedFindings ==
    /\ [](\A t \in Threads :
            /\ IsPrefix(RowsOf(t),
                        FindingRows(t, RefWeapons(call[t].raw.w),
                                    RefPlate(call[t].raw.p, ocr_reader),
                                    RefBehaviour(call[t].raw.b)))
            /\ Done(t) /\ call[t].body # "image" => RowsOf(t) = <<>>)
    /\ [][IsPrefix(log, log')]_vars

\* a request failed after it had recorded a weapon
C10_Witness ==
    \E t \in Threads :
      /\ Done(t) /\ call[t].resp.status = 500
      /\ call[t].resp.error = "DetectorError"
      /\ Len(RowsOf(t)) = 1
      /\ RowsOf(t)[1].Type = "WEAPON"

====
